---- MODULE Spec2Model ----
(***************************************************************************)
(* Focus Battle: the session timer (timer.js, kept as src/unnamed/part_000)*)
(* and the theme controller (src/theme.js), as state machines.             *)
(*                                                                         *)
(* Timer: the module-level variables of timer.js, the parts of the browser *)
(* its handlers act on (the table of live setInterval timers, the          *)
(* beforeunload listener, the 'danger' class of the display, the result    *)
(* overlay and its counters, the awaited fetch calls in flight), and one   *)
(* action per handler.  The handlers are taken as callable in any order,   *)
(* as the functions of the script are; tick runs only for a live timer.    *)
(***************************************************************************)
EXTENDS Integers, Sequences, FiniteSets, TLC

\* ---- program constants (timer.js) ----
TOTAL_SECONDS == 25 * 60
DANGER_THRESHOLD == 60

\* ---- bounds of the model ----
\* handleBeforeUnload may issue a report only while fewer than this many loss
\* reports were issued in the session (the user can cancel the prompt forever).
MaxUnloadReports == 2
\* startTimer may begin a countdown only while secondsLeft > -MaxOverrun.
MaxOverrun == 2
\* startTimer may begin a countdown only while fewer than this many awaited
\* report calls are unanswered.
MaxInflight == 1

VARIABLES
    timerState,     \* 'idle' | 'running' | 'done'
    secondsLeft,    \* let secondsLeft
    intervalId,     \* let intervalId: 0 models null, else a setInterval handle
    sessionLocked,  \* let sessionLocked
    timers,         \* browser: handles of the live setInterval timers
    unloadListener, \* browser: handleBeforeUnload registered on window
    danger,         \* display.classList contains 'danger'
    overlayHidden,  \* resultOverlay.classList contains 'hidden'
    shownStats,     \* where the displayed counters come from
    inflight,       \* awaited report calls not yet answered: <<type, ...>>
    winsSent,       \* history: win reports issued since the session's start
    lossesSent,     \* history: loss reports issued since the session's start
    freshTicks,     \* history: ticks of a run started from idle, -1 if none
    lastOp,         \* history: the handler (or response) that ran last
    lockAtIssue,    \* history: the lock flag as the session's awaited report
                    \* call was made ("set" | "unset"), "none" before it
    \* ---- theme.js ----
    hasBody,        \* the page has an element with id 'app-body'
    bodyClasses,    \* its classList
    storage,        \* localStorage item 'focus-battle-theme'
    pillActive,     \* data-theme of the .theme-pill buttons carrying 'active'
    themeLoaded,    \* the script's top-level loadSavedTheme() call has run
    lastApplied     \* history: the argument of the last applyTheme call

timerVars == <<timerState, secondsLeft, intervalId, sessionLocked, timers,
               unloadListener, danger, overlayHidden, shownStats, inflight,
               winsSent, lossesSent, freshTicks, lastOp, lockAtIssue>>

themeVars == <<hasBody, bodyClasses, storage, pillActive, themeLoaded,
               lastApplied>>

vars == <<timerVars, themeVars>>

Null == "null"

TimerStates == {"idle", "running", "done"}

\* What the scoring service (or the network) does with an awaited report call.
ResponseKinds == {"ok", "network-error", "http-error-json", "http-error-nojson"}

\* ---- browser: setInterval / clearInterval ----
\* setInterval returns a handle greater than zero that no live timer has.
NewHandle == CHOOSE h \in 1..(Cardinality(timers) + 1) :
                 /\ h \notin timers
                 /\ \A g \in 1..(Cardinality(timers) + 1) : g \notin timers => h <= g

\* clearInterval(id): a null or stale handle clears nothing.
clearInterval(id) == timers \ {id}

\* ---- reportWin / reportLoss: the value the awaited call returns ----
\* fetch rejects only on a network error; res.json() rejects on a body that is
\* not JSON; both are caught and give null.  The status is never read.
reportReturn(kind) ==
    CASE kind = "ok"                -> "server-stats"
      [] kind = "network-error"     -> Null
      [] kind = "http-error-json"   -> "error-body"
      [] kind = "http-error-nojson" -> Null

\* ---- showResult(type, stats): what the counters show afterwards ----
showResultStats(stats) == IF stats # Null THEN stats ELSE shownStats

\* Mutant: the countdown completes one tick late.
Completed_late(secs) == secs < 0

\* tick's completion test
Completed(secs) == secs <= 0

\* tick's danger test
InDanger(secs) == secs <= DANGER_THRESHOLD

InitTimer ==
    /\ timerState = "idle"
    /\ secondsLeft = TOTAL_SECONDS
    /\ intervalId = 0
    /\ sessionLocked = FALSE
    /\ timers = {}
    /\ unloadListener = FALSE
    /\ danger = FALSE
    /\ overlayHidden = TRUE
    /\ shownStats = "page"
    /\ inflight = <<>>
    /\ winsSent = 0
    /\ lossesSent = 0
    /\ freshTicks = -1
    /\ lastOp = "load"
    /\ lockAtIssue = "none"

\* The lock flag as a report call sees it.
lockText(locked) == IF locked THEN "set" ELSE "unset"

\* Mutant: tick that calls reportWin() before it sets the lock flag.
tick_reportFirst ==
    /\ UNCHANGED themeVars
    /\ timers # {}
    /\ secondsLeft' = secondsLeft - 1
    /\ danger' = (InDanger(secondsLeft') \/ danger)
    /\ IF Completed(secondsLeft')
       THEN /\ timers' = clearInterval(intervalId)
            /\ lockAtIssue' = lockText(sessionLocked)
            /\ sessionLocked' = TRUE
            /\ timerState' = "done"
            /\ unloadListener' = FALSE
            /\ winsSent' = winsSent + 1
            /\ inflight' = Append(inflight, "win")
       ELSE UNCHANGED <<timers, sessionLocked, timerState, unloadListener,
                        winsSent, inflight, lockAtIssue>>
    /\ freshTicks' = IF freshTicks >= 0 THEN freshTicks + 1 ELSE freshTicks
    /\ lastOp' = "tick"
    /\ UNCHANGED <<intervalId, overlayHidden, shownStats, lossesSent>>

\* tick(): the setInterval callback; runs once per second for a live timer.
tick ==
    /\ UNCHANGED themeVars
    /\ timers # {}
    /\ secondsLeft' = secondsLeft - 1
    /\ danger' = (InDanger(secondsLeft') \/ danger)
    /\ IF Completed(secondsLeft')
       THEN /\ timers' = clearInterval(intervalId)
            /\ sessionLocked' = TRUE
            /\ timerState' = "done"
            /\ unloadListener' = FALSE
            /\ winsSent' = winsSent + 1
            /\ inflight' = Append(inflight, "win")
            /\ lockAtIssue' = lockText(sessionLocked')
       ELSE UNCHANGED <<timers, sessionLocked, timerState, unloadListener,
                        winsSent, inflight, lockAtIssue>>
    /\ freshTicks' = IF freshTicks >= 0 THEN freshTicks + 1 ELSE freshTicks
    /\ lastOp' = "tick"
    /\ UNCHANGED <<intervalId, overlayHidden, shownStats, lossesSent>>

\* Mutant: startTimer without its early return.
startTimer_noGuard ==
    /\ UNCHANGED themeVars
    /\ secondsLeft > -MaxOverrun
    /\ Len(inflight) < MaxInflight
    /\ timerState' = "running"
    /\ sessionLocked' = FALSE
    /\ danger' = FALSE
    /\ intervalId' = NewHandle
    /\ timers' = timers \cup {NewHandle}
    /\ unloadListener' = TRUE
    /\ winsSent' = 0
    /\ lossesSent' = 0
    /\ freshTicks' = IF timerState = "idle" THEN 0 ELSE -1
    /\ lockAtIssue' = "none"
    /\ lastOp' = "startTimer"
    /\ UNCHANGED <<secondsLeft, overlayHidden, shownStats, inflight>>

\* startTimer(): click on the start button.
startTimer ==
    /\ UNCHANGED themeVars
    /\ IF timerState = "running"
       THEN UNCHANGED <<timerState, sessionLocked, danger, intervalId, timers,
                        unloadListener, winsSent, lossesSent, freshTicks,
                        lockAtIssue>>
       ELSE /\ secondsLeft > -MaxOverrun
            /\ Len(inflight) < MaxInflight
            /\ timerState' = "running"
            /\ sessionLocked' = FALSE
            /\ danger' = FALSE
            /\ intervalId' = NewHandle
            /\ timers' = timers \cup {NewHandle}
            /\ unloadListener' = TRUE
            /\ winsSent' = 0
            /\ lossesSent' = 0
            /\ freshTicks' = IF timerState = "idle" THEN 0 ELSE -1
            /\ lockAtIssue' = "none"
    /\ lastOp' = "startTimer"
    /\ UNCHANGED <<secondsLeft, overlayHidden, shownStats, inflight>>

\* Mutant: resetTimer that leaves secondsLeft as it is.
resetTimer_keepSeconds ==
    /\ timers' = clearInterval(intervalId)
    /\ secondsLeft' = secondsLeft
    /\ timerState' = "idle"
    /\ sessionLocked' = FALSE
    /\ danger' = FALSE
    /\ unloadListener' = FALSE

\* Mutant: resetTimer that leaves the beforeunload listener registered.
resetTimer_keepListener ==
    /\ timers' = clearInterval(intervalId)
    /\ secondsLeft' = TOTAL_SECONDS
    /\ timerState' = "idle"
    /\ sessionLocked' = FALSE
    /\ danger' = FALSE
    /\ unloadListener' = unloadListener

\* Mutant: resetTimer that leaves the lock flag as it is.
resetTimer_keepLock ==
    /\ timers' = clearInterval(intervalId)
    /\ secondsLeft' = TOTAL_SECONDS
    /\ timerState' = "idle"
    /\ sessionLocked' = sessionLocked
    /\ danger' = FALSE
    /\ unloadListener' = FALSE

\* resetTimer(): the function's own effects.
resetTimer ==
    /\ timers' = clearInterval(intervalId)
    /\ secondsLeft' = TOTAL_SECONDS
    /\ timerState' = "idle"
    /\ sessionLocked' = FALSE
    /\ danger' = FALSE
    /\ unloadListener' = FALSE

\* Click on "Battle Again": hide the overlay, then resetTimer().
btnAgainClick ==
    /\ UNCHANGED themeVars
    /\ overlayHidden' = TRUE
    /\ resetTimer
    /\ winsSent' = 0
    /\ lossesSent' = 0
    /\ freshTicks' = -1
    /\ lockAtIssue' = "none"
    /\ lastOp' = "resetTimer"
    /\ UNCHANGED <<intervalId, shownStats, inflight>>

\* Mutant: abandonSession that leaves the countdown running.
abandonSession_noClear ==
    /\ UNCHANGED themeVars
    /\ IF timerState # "running"
       THEN UNCHANGED <<timers, sessionLocked, timerState, unloadListener,
                        lossesSent, inflight, freshTicks, lockAtIssue>>
       ELSE /\ timers' = timers
            /\ sessionLocked' = TRUE
            /\ timerState' = "done"
            /\ unloadListener' = FALSE
            /\ lossesSent' = lossesSent + 1
            /\ inflight' = Append(inflight, "loss")
            /\ lockAtIssue' = lockText(sessionLocked')
            /\ freshTicks' = -1
    /\ lastOp' = "abandonSession"
    /\ UNCHANGED <<secondsLeft, intervalId, danger, overlayHidden, shownStats,
                   winsSent>>

\* Mutant: abandonSession that awaits the report before it changes the state
\* (and then never gets to it).
abandonSession_awaitFirst ==
    /\ UNCHANGED themeVars
    /\ IF timerState # "running"
       THEN UNCHANGED <<lossesSent, inflight, freshTicks, lockAtIssue>>
       ELSE /\ Len(inflight) < MaxInflight
            /\ lossesSent < MaxUnloadReports
            /\ lossesSent' = lossesSent + 1
            /\ inflight' = Append(inflight, "loss")
            /\ lockAtIssue' = lockText(sessionLocked)
            /\ freshTicks' = -1
    /\ lastOp' = "abandonSession"
    /\ UNCHANGED <<timers, sessionLocked, timerState, unloadListener,
                   secondsLeft, intervalId, danger, overlayHidden, shownStats,
                   winsSent>>

\* Mutant: abandonSession without its early return.
abandonSession_noGuard ==
    /\ UNCHANGED themeVars
    /\ timers' = clearInterval(intervalId)
    /\ sessionLocked' = TRUE
    /\ timerState' = "done"
    /\ unloadListener' = FALSE
    /\ lossesSent' = lossesSent + 1
    /\ inflight' = Append(inflight, "loss")
    /\ lockAtIssue' = lockText(sessionLocked')
    /\ freshTicks' = -1
    /\ lastOp' = "abandonSession"
    /\ UNCHANGED <<secondsLeft, intervalId, danger, overlayHidden, shownStats,
                   winsSent>>

\* abandonSession(), up to its await; the rest runs in Respond.
abandonSession ==
    /\ UNCHANGED themeVars
    /\ IF timerState # "running"
       THEN UNCHANGED <<timers, sessionLocked, timerState, unloadListener,
                        lossesSent, inflight, freshTicks, lockAtIssue>>
       ELSE /\ timers' = clearInterval(intervalId)
            /\ sessionLocked' = TRUE
            /\ timerState' = "done"
            /\ unloadListener' = FALSE
            /\ lossesSent' = lossesSent + 1
            /\ inflight' = Append(inflight, "loss")
            /\ lockAtIssue' = lockText(sessionLocked')
            /\ freshTicks' = -1
    /\ lastOp' = "abandonSession"
    /\ UNCHANGED <<secondsLeft, intervalId, danger, overlayHidden, shownStats,
                   winsSent>>

\* Mutant: handleBeforeUnload that also ends the session when it reports.
handleBeforeUnload_endsSession ==
    /\ UNCHANGED themeVars
    /\ IF sessionLocked \/ timerState # "running"
       THEN UNCHANGED <<lossesSent, timerState, timers>>
       ELSE /\ lossesSent < MaxUnloadReports
            /\ lossesSent' = lossesSent + 1
            /\ timerState' = "done"
            /\ timers' = clearInterval(intervalId)
    /\ lastOp' = "handleBeforeUnload"
    /\ UNCHANGED <<secondsLeft, intervalId, sessionLocked,
                   unloadListener, danger, overlayHidden, shownStats, inflight,
                   winsSent, freshTicks, lockAtIssue>>

\* handleBeforeUnload(e): the user tries to leave.  The fetch is not awaited
\* and its response is dropped.  A step of this action is the case where the
\* page stays (the prompt is cancelled); when the user leaves, the page and
\* this state are discarded and the behaviour ends.  The browser runs the
\* handler only while it is registered (unloadListener); here it may run in
\* any state, like the other handlers, which only adds behaviours: its own
\* test decides whether it reports.
handleBeforeUnload ==
    /\ UNCHANGED themeVars
    /\ IF sessionLocked \/ timerState # "running"
       THEN UNCHANGED lossesSent
       ELSE /\ lossesSent < MaxUnloadReports
            /\ lossesSent' = lossesSent + 1
    /\ lastOp' = "handleBeforeUnload"
    /\ UNCHANGED <<timerState, secondsLeft, intervalId, sessionLocked, timers,
                   unloadListener, danger, overlayHidden, shownStats, inflight,
                   winsSent, freshTicks, lockAtIssue>>

\* An awaited report call settles: reportWin/reportLoss return, and the
\* continuation (tick's .then, abandonSession after its await) runs
\* showResult(type, stats).  Calls may settle in any order.
Respond ==
    \E i \in 1..Len(inflight), kind \in ResponseKinds :
        /\ inflight' = SubSeq(inflight, 1, i - 1) \o SubSeq(inflight, i + 1, Len(inflight))
        /\ shownStats' = showResultStats(reportReturn(kind))
        /\ overlayHidden' = FALSE
        /\ lastOp' = kind
        /\ UNCHANGED themeVars
        /\ UNCHANGED <<timerState, secondsLeft, intervalId, sessionLocked,
                       timers, unloadListener, danger, winsSent, lossesSent,
                       freshTicks, lockAtIssue>>

\* ---- theme.js ----
DEFAULT_THEME == "theme-lofi"

VALID_THEMES == {"theme-lofi", "theme-porsche", "theme-f1", "theme-nyc",
                 "theme-liquid"}

\* Strings that are no valid theme name: the empty string, an unknown name,
\* a valid name in another case, and what a pill without data-theme passes.
InvalidNames == {"", "theme-dark", "Theme-F1", "undefined"}

ThemeNames == VALID_THEMES \cup InvalidNames

\* localStorage.getItem gives null when the item was never set.
NoItem == "(no item)"

NotApplied == "(not applied)"

\* One .theme-pill button per theme, tagged with data-theme.
Pills == VALID_THEMES

\* Mutant: the argument is used as given.
normalise_asGiven(themeName) == themeName

\* applyTheme's normalisation of its argument
normalise(themeName) ==
    IF themeName \notin VALID_THEMES THEN DEFAULT_THEME ELSE themeName

\* Mutant: applyTheme that does not remove the other theme classes.
applyTheme_noRemove(themeName) ==
    /\ IF ~hasBody
       THEN UNCHANGED <<bodyClasses, storage, pillActive>>
       ELSE /\ bodyClasses' = bodyClasses \cup {normalise(themeName)}
            /\ storage' = normalise(themeName)
            /\ pillActive' = {p \in Pills : p = normalise(themeName)}
    /\ lastApplied' = themeName

\* applyTheme(themeName)
applyTheme(themeName) ==
    /\ IF ~hasBody
       THEN UNCHANGED <<bodyClasses, storage, pillActive>>
       ELSE /\ bodyClasses' = (bodyClasses \ VALID_THEMES) \cup {normalise(themeName)}
            /\ storage' = normalise(themeName)
            /\ pillActive' = {p \in Pills : p = normalise(themeName)}
    /\ lastApplied' = themeName

\* loadSavedTheme(): getItem(...) || DEFAULT_THEME, then applyTheme
savedTheme == IF storage = NoItem \/ storage = "" THEN DEFAULT_THEME ELSE storage

loadSavedTheme ==
    /\ ~themeLoaded
    /\ themeLoaded' = TRUE
    /\ applyTheme(savedTheme)
    /\ UNCHANGED <<hasBody, timerVars>>

\* Click on a theme pill (initThemePills): applyTheme(btn.dataset.theme)
pillClick ==
    /\ themeLoaded
    /\ \E p \in Pills : applyTheme(p)
    /\ UNCHANGED <<hasBody, themeLoaded, timerVars>>

\* applyTheme called with any string
applyAny ==
    /\ themeLoaded
    /\ \E n \in ThemeNames : applyTheme(n)
    /\ UNCHANGED <<hasBody, themeLoaded, timerVars>>

\* The page as the browser hands it to theme.js: with or without the root
\* element, with any earlier value (or none) under the storage key.
InitTheme ==
    /\ hasBody \in BOOLEAN
    /\ bodyClasses \in {{}} \cup {{t} : t \in VALID_THEMES}
    /\ storage \in {NoItem} \cup ThemeNames
    /\ pillActive \in {{}, {DEFAULT_THEME}}
    /\ themeLoaded = FALSE
    /\ lastApplied = NotApplied

\* The theme controller after a first visit's loadSavedTheme().
ThemeAtRest ==
    /\ hasBody = TRUE
    /\ bodyClasses = {DEFAULT_THEME}
    /\ storage = DEFAULT_THEME
    /\ pillActive = {DEFAULT_THEME}
    /\ themeLoaded = TRUE
    /\ lastApplied = DEFAULT_THEME

NextTheme ==
    \/ loadSavedTheme
    \/ pillClick
    \/ applyAny

\* The theme controller on any page, the timer left as loaded.
InitThemePage == InitTimer /\ InitTheme

SpecTheme == InitThemePage /\ [][NextTheme]_vars

Next ==
    \/ tick
    \/ startTimer
    \/ btnAgainClick
    \/ abandonSession
    \/ handleBeforeUnload
    \/ Respond

\* The timer page as loaded, the theme controller at rest.
Init == InitTimer /\ ThemeAtRest

Spec == Init /\ [][Next]_vars

(***************************************************************************)
(* Properties                                                              *)
(***************************************************************************)

\* C1: at most one outcome report (win or loss, counted together) is sent
\* per session, whatever the sequence of start, tick, abandon, unload (with
\* the user staying) and reset actions.
C1_AtMostOneReport == winsSent + lossesSent <= 1

\* C2: when the unload handler fires while running with the lock unset it
\* issues exactly one loss report and sets the lock flag, and a firing right
\* after another firing issues no report.
C2_UnloadLocks ==
    [][handleBeforeUnload =>
        /\ (timerState = "running" /\ ~sessionLocked)
              => (lossesSent' = lossesSent + 1 /\ sessionLocked')
        /\ (lastOp = "handleBeforeUnload") => (lossesSent' = lossesSent)]_vars

\* C3: in a run started from idle, the state stays running with no win
\* report through the first TOTAL_SECONDS - 1 ticks; the TOTAL_SECONDS-th
\* tick leaves secondsLeft = 0 and state done, with exactly one win report
\* issued and the unload listener removed.
C3_CompletionAfterTotalTicks ==
    freshTicks >= 0 =>
        /\ freshTicks <= TOTAL_SECONDS
        /\ secondsLeft = TOTAL_SECONDS - freshTicks
        /\ freshTicks < TOTAL_SECONDS => (timerState = "running" /\ winsSent = 0)
        /\ freshTicks = TOTAL_SECONDS =>
              /\ secondsLeft = 0
              /\ timerState = "done"
              /\ winsSent = 1
              /\ ~unloadListener

C3_Witness ==
    /\ freshTicks = TOTAL_SECONDS
    /\ lastOp = "tick"
    /\ timerState = "done"
    /\ winsSent = 1

\* C4: abandonSession while running issues exactly one loss report, moves
\* the state to done and stops the countdown; and while the state is not
\* running (until the next start) the unload handler issues no report.
C4_AbandonReportsOnce ==
    [][/\ (abandonSession /\ timerState = "running") =>
              /\ lossesSent' = lossesSent + 1
              /\ winsSent' = winsSent
              /\ inflight' = Append(inflight, "loss")
              /\ timerState' = "done"
              /\ timers' = {}
       /\ (handleBeforeUnload /\ timerState # "running") =>
              UNCHANGED <<winsSent, lossesSent, inflight>>]_vars

\* The unload handler has fired after an abandon whose report is unanswered.
C4_Witness ==
    /\ lastOp = "handleBeforeUnload"
    /\ timerState = "done"
    /\ inflight = <<"loss">>
    /\ lossesSent = 1
    /\ winsSent = 0

\* C5: startTimer while running leaves state, secondsLeft and the lock flag
\* unchanged and creates no second interval: one timer stays live.
C5_StartWhileRunningNoop ==
    [][(startTimer /\ timerState = "running") =>
          /\ UNCHANGED <<timerState, secondsLeft, sessionLocked, timers, intervalId>>
          /\ Cardinality(timers') = 1]_vars

\* startTimer ran last, in a run from idle that has already ticked.
C5_Witness ==
    /\ lastOp = "startTimer"
    /\ timerState = "running"
    /\ freshTicks > 0
    /\ Cardinality(timers) = 1

\* C6: a reset taken in state done restores the session to its page-load
\* value: idle, secondsLeft = TOTAL_SECONDS, lock unset, no live timer, no
\* unload listener (and no danger mode, overlay hidden, no report counted),
\* which is all that startTimer, tick, abandonSession and handleBeforeUnload
\* read besides a handle that is no longer live.
C6_ResetRestoresPageLoad ==
    [][(btnAgainClick /\ timerState = "done") =>
          /\ timerState' = "idle"
          /\ secondsLeft' = TOTAL_SECONDS
          /\ sessionLocked' = FALSE
          /\ timers' = {}
          /\ intervalId' \notin timers'
          /\ unloadListener' = FALSE
          /\ danger' = FALSE
          /\ overlayHidden' = TRUE
          /\ winsSent' = 0 /\ lossesSent' = 0]_vars

\* A reset has run after a session that ended, its report still unanswered.
C6_Witness ==
    /\ lastOp = "resetTimer"
    /\ timerState = "idle"
    /\ inflight # <<>>
    /\ intervalId # 0

\* C7: abandonSession while the state is not running issues no report and
\* leaves state, secondsLeft and the lock flag unchanged.
C7_AbandonNotRunningNoop ==
    [][(abandonSession /\ timerState # "running") =>
          UNCHANGED <<timerState, secondsLeft, sessionLocked, timers,
                      winsSent, lossesSent, inflight>>]_vars

\* abandonSession ran last, in state done reached by completion.
C7_Witness ==
    /\ lastOp = "abandonSession"
    /\ timerState = "done"
    /\ winsSent = 1
    /\ lossesSent = 0

\* The response kinds that are failures of the call: a network error or a
\* non-success status (with or without a parseable body).
FailedKinds == ResponseKinds \ {"ok"}

\* C8: when a report call fails (network error, or non-success response,
\* with or without a parseable body) the overlay is shown, the displayed
\* counters are not updated from that response, and no report is re-sent.
C8_FailedReportShowsNoStats ==
    [][(Respond /\ lastOp' \in FailedKinds) =>
          /\ overlayHidden' = FALSE
          /\ shownStats' = shownStats
          /\ UNCHANGED <<winsSent, lossesSent>>
          /\ Len(inflight') = Len(inflight) - 1]_vars

\* The default theme is the one theme marker on the root, and is persisted.
DefaultActiveAndPersisted ==
    /\ bodyClasses \cap VALID_THEMES = {DEFAULT_THEME}
    /\ storage = DEFAULT_THEME

\* C9 as stated: a call of applyTheme with any string outside the valid set,
\* and loadSavedTheme reading any such string (or nothing) from storage,
\* leaves the default theme active on the root and persisted.
C9_InvalidGivesDefault_AnyPage ==
    [][(\/ lastApplied' \in InvalidNames
        \/ (loadSavedTheme /\ storage \notin VALID_THEMES))
          => DefaultActiveAndPersisted']_vars

\* C9, amended: the same, on a page that has the root element.
C9_InvalidGivesDefault ==
    [][(/\ hasBody
        /\ \/ lastApplied' \in InvalidNames
           \/ (loadSavedTheme /\ storage \notin VALID_THEMES))
          => DefaultActiveAndPersisted']_vars

\* applyTheme has been called with an invalid name on a page with the root.
C9_Witness ==
    /\ hasBody
    /\ themeLoaded
    /\ lastApplied = "theme-dark"
    /\ DefaultActiveAndPersisted

\* C10: in every reachable state 0 <= secondsLeft <= TOTAL_SECONDS.
C10_SecondsInRange == secondsLeft \in 0..TOTAL_SECONDS

\* C11: done is terminal until a reset: the only transition into running
\* is from idle, and startTimer called in state done begins no countdown
\* and leaves state and secondsLeft unchanged.
C11_DoneTerminalUntilReset ==
    [][/\ (timerState # "running" /\ timerState' = "running")
              => timerState = "idle"
       /\ (startTimer /\ timerState = "done")
              => UNCHANGED <<timerState, secondsLeft, timers>>]_vars

\* C12: handleBeforeUnload never changes the session: running and unlocked,
\* it issues one loss report and leaves state, secondsLeft, lock flag and
\* the live countdown as they are; locked or not running, it issues no
\* report and changes nothing.
C12_UnloadLeavesSession ==
    [][handleBeforeUnload =>
          /\ UNCHANGED <<timerState, secondsLeft, sessionLocked, intervalId,
                         timers, unloadListener, danger, overlayHidden,
                         shownStats, inflight, winsSent>>
          /\ (timerState = "running" /\ ~sessionLocked)
                => lossesSent' = lossesSent + 1
          /\ (sessionLocked \/ timerState # "running")
                => lossesSent' = lossesSent]_vars

\* The handler has reported a loss in a running session that has ticked
\* and is still counting down.
C12_Witness ==
    /\ lastOp = "handleBeforeUnload"
    /\ timerState = "running"
    /\ lossesSent = 1
    /\ freshTicks > 0
    /\ timers = {intervalId}

\* C13: the transition to done does not wait for the scoring service: the
\* step that makes the awaited report call (completion or abandon) already
\* leaves the state done and the lock flag set, and when the call settles,
\* with success or with failure, the overlay is shown by that very step,
\* the state and the lock flag staying as they are.
C13_DoneBeforeResponse ==
    [][/\ (Len(inflight') > Len(inflight))
              => (timerState' = "done" /\ sessionLocked')
       /\ Respond
              => (overlayHidden' = FALSE /\ UNCHANGED <<timerState, sessionLocked>>)]_vars

\* A failed report call has settled in state done and the overlay is up.
C13_Witness ==
    /\ lastOp \in FailedKinds
    /\ overlayHidden = FALSE
    /\ timerState = "done"
    /\ sessionLocked
    /\ inflight = <<>>

\* C14: the lock flag is a latch: it goes from unset to set only in the step
\* that ends a running session (completion or abandon) and makes its report
\* call, the call is made with the flag already set, and the flag is cleared
\* only by a reset or by startTimer; so between two clearings it is set at
\* most once.
C14_LockIsLatch ==
    /\ [](lockAtIssue # "unset")
    /\ [][/\ (~sessionLocked /\ sessionLocked')
                 => /\ timerState = "running"
                    /\ timerState' = "done"
                    /\ Len(inflight') = Len(inflight) + 1
                    /\ lockAtIssue' = "set"
          /\ (sessionLocked /\ ~sessionLocked')
                 => (btnAgainClick \/ startTimer)]_vars

\* A completion has set the latch and made its report call with it set.
C14_Witness ==
    /\ lastOp = "tick"
    /\ timerState = "done"
    /\ sessionLocked
    /\ lockAtIssue = "set"
    /\ winsSent = 1

\* In a run started from idle (until it is abandoned), danger mode is on
\* exactly when secondsLeft <= 60, that is from the 1440th tick on.
DangerFollowsThreshold ==
    freshTicks >= 0 =>
        /\ danger <=> (secondsLeft <= DANGER_THRESHOLD)
        /\ danger <=> (freshTicks >= TOTAL_SECONDS - DANGER_THRESHOLD)

\* C15: each tick decrements secondsLeft by exactly one; in a session started
\* from idle danger mode is off while secondsLeft > 60 and is turned on by
\* the tick that brings it to 60 (the 1440th); and once on, danger mode stays
\* on, through completion or abandon, until a reset turns it off.
C15_TickAndDanger ==
    /\ [] DangerFollowsThreshold
    /\ [][/\ tick => (secondsLeft' = secondsLeft - 1)
          /\ (tick /\ freshTicks >= 0 /\ secondsLeft' = DANGER_THRESHOLD)
                 => (~danger /\ danger')
          /\ (danger /\ ~danger') => btnAgainClick]_vars

\* C16: on a page with the root element, after any applyTheme calls (with
\* any strings) the root carries exactly one theme class of the valid set,
\* the stored value is that class, and a theme pill is active exactly when
\* its data-theme is that class.
C16_OneThemeEverywhere ==
    (hasBody /\ lastApplied # NotApplied) =>
        \E t \in VALID_THEMES :
            /\ bodyClasses \cap VALID_THEMES = {t}
            /\ storage = t
            /\ \A p \in Pills : (p \in pillActive) <=> (p = t)

\* A valid theme other than the default is applied, stored and its pill
\* active, the last call having passed that name.
C16_Witness ==
    /\ hasBody
    /\ lastApplied = "theme-f1"
    /\ bodyClasses = {"theme-f1"}
    /\ storage = "theme-f1"
    /\ pillActive = {"theme-f1"}

\* C17: in every reachable state a setInterval timer is live if and only if
\* the state is running (and then it is the one intervalId names), so tick
\* can fire in no idle or done state.
C17_TimerLiveIffRunning ==
    /\ (timers # {}) <=> (timerState = "running")
    /\ timerState = "running" => timers = {intervalId}
    /\ (ENABLED tick) => timerState = "running"

\* An abandon has stopped the countdown of a session that had ticked.
C17_Witness ==
    /\ lastOp = "abandonSession"
    /\ timerState = "done"
    /\ timers = {}
    /\ lossesSent = 1
    /\ secondsLeft < TOTAL_SECONDS

\* C18: in every reachable state the beforeunload listener is registered if
\* and only if the state is running; startTimer registers it only when it is
\* not registered, and completion, abandon and reset leave it removed.
C18_ListenerIffRunning ==
    /\ [](unloadListener <=> (timerState = "running"))
    /\ [][/\ (startTimer /\ timerState # "running") => (~unloadListener /\ unloadListener')
          /\ (timerState' \in {"done", "idle"}) => ~unloadListener']_vars

\* The completing tick has removed the listener.
C18_Witness ==
    /\ lastOp = "tick"
    /\ timerState = "done"
    /\ unloadListener = FALSE
    /\ winsSent = 1

\* C19: in every reachable state the lock flag is set if and only if the
\* state is done, so handleBeforeUnload's lock test never holds in a
\* running state.
C19_LockedIffDone ==
    /\ sessionLocked <=> (timerState = "done")
    /\ ~(sessionLocked /\ timerState = "running")

\* The handler has run in state done, lock set, after a completion.
C19_Witness ==
    /\ lastOp = "handleBeforeUnload"
    /\ timerState = "done"
    /\ sessionLocked
    /\ winsSent = 1

====
